---------------------------- MODULE Spec2Model ----------------------------
(***************************************************************************)
(* mp4dovi: in-place rewrite of the codec tag of the sample entries of an  *)
(* MP4 file (src/mp4dovi.go, the 64-bit-size-aware version).               *)
(*                                                                         *)
(* A file is a sequence of bytes.  The program is sequential; pc is the    *)
(* place in the code, one action per loop iteration or call/return.        *)
(*                                                                         *)
(* Numbers.  Every use the code makes of a box size is int64(size) or      *)
(* int64(size - headerSize), the subtraction done in uint64.  Both equal   *)
(* the int64 with the bit pattern of the size, minus the header size, in   *)
(* wrapping int64 arithmetic.  Sizes are therefore carried as that int64   *)
(* (an extended size of 2^64-8 is carried as -8), and the files drawn by   *)
(* Init keep every size and offset far from the ends of the int64 range,   *)
(* where the wrapping arithmetic is plain integer arithmetic.              *)
(***************************************************************************)
EXTENDS Integers, Sequences, FiniteSets, TLC

(******************************** bounds ***********************************)
MaxEntries == 2      \* sample entries per stsd box
MaxTraks == 3        \* trak boxes per moov box in the multi-track files
MaxRuns == 2         \* invocations of the program on the same files

(***************************** box types ***********************************)
MoovBoxType == <<109, 111, 111, 118>>
TrakBoxType == <<116, 114, 97, 107>>
MdiaBoxType == <<109, 100, 105, 97>>
MinfBoxType == <<109, 105, 110, 102>>
StblBoxType == <<115, 116, 98, 108>>
StsdBoxType == <<115, 116, 115, 100>>

\* tags that only occur in files and on the command line
Dvhe == <<100, 118, 104, 101>>
Dvh1 == <<100, 118, 104, 49>>
Hev1 == <<104, 101, 118, 49>>
Hvc1 == <<104, 118, 99, 49>>
Free == <<102, 114, 101, 101>>
Stts == <<115, 116, 116, 115>>

(********************** big-endian encoding (file side) ********************)
BE32(n) ==
    << (n \div 16777216) % 256, (n \div 65536) % 256, (n \div 256) % 256, n % 256 >>

\* 8 bytes, two's complement; n is small in magnitude
BE64(n) ==
    IF n >= 0 THEN <<0, 0, 0, 0>> \o BE32(n)
    ELSE LET m == -n - 1      \* the bytes of n are the complemented bytes of m
             b == BE32(m)
         IN <<255, 255, 255, 255>> \o [i \in 1..4 |-> 255 - b[i]]

Box(type, body) == BE32(8 + Len(body)) \o type \o body
XBox(type, body) == BE32(1) \o type \o BE64(16 + Len(body)) \o body
RawBox(size, type, body) == BE32(size) \o type \o body
RawXBox(size, type, body) == BE32(1) \o type \o BE64(size) \o body

RECURSIVE Concat(_)
Concat(ss) == IF ss = <<>> THEN <<>> ELSE Head(ss) \o Concat(Tail(ss))

(********************** big-endian decoding (program side) *****************)
\* binary.Read of a uint32 at 0-based offset p
U32At(bytes, p) ==
    bytes[p + 1] * 16777216 + bytes[p + 2] * 65536 + bytes[p + 3] * 256 + bytes[p + 4]

\* binary.Read of a uint64 at 0-based offset p, as the int64 of the same bits
\* (two's complement: a first byte of 128 or more is a negative int64)
U64At(bytes, p) ==
    IF bytes[p + 1] < 128
    THEN U32At(bytes, p) * 65536 * 65536 + U32At(bytes, p + 4)
    ELSE - ( ( (255 - bytes[p + 1]) * 16777216 + (255 - bytes[p + 2]) * 65536
               + (255 - bytes[p + 3]) * 256 + (255 - bytes[p + 4]) ) * 65536 * 65536
             + (255 - bytes[p + 5]) * 16777216 + (255 - bytes[p + 6]) * 65536
             + (255 - bytes[p + 7]) * 256 + (255 - bytes[p + 8]) ) - 1

TypeAt(bytes, p) == << bytes[p + 1], bytes[p + 2], bytes[p + 3], bytes[p + 4] >>


(****************************** headers ************************************)
NoHeader == [Size |-> 0, Type |-> <<0, 0, 0, 0>>, ExtendedSize |-> 0]

getBoxSize(header) ==
    IF header.Size = 1 THEN header.ExtendedSize ELSE header.Size

getHeaderSize(header) == IF header.Size = 1 THEN 16 ELSE 8

\* the offset of the 8-byte header, used for every header
getHeaderTypeOffsetShort(header) == -4

getHeaderTypeOffset(header) == IF header.Size = 1 THEN -12 ELSE -4

\* int64(getBoxSize(h) - getHeaderSize(h)): the limit of a search inside h and
\* the distance from the end of h's header to the end of h
BodySize(header) == getBoxSize(header) - getHeaderSize(header)

\* readBoxHeader at offset p: 4 bytes of size, 4 of type and, when the size
\* is 1, 8 bytes of extended size; a short read is an error
readBoxHeader(bytes, p) ==
    IF p + 8 > Len(bytes)
    THEN [ok |-> FALSE, h |-> NoHeader, pos |-> p]
    ELSE LET size == U32At(bytes, p)
             type == TypeAt(bytes, p + 4)
         IN IF size # 1
            THEN [ok |-> TRUE, pos |-> p + 8,
                  h |-> [Size |-> size, Type |-> type, ExtendedSize |-> 0]]
            ELSE IF p + 16 > Len(bytes)
            THEN [ok |-> FALSE, h |-> NoHeader, pos |-> p]
            ELSE [ok |-> TRUE, pos |-> p + 16,
                  h |-> [Size |-> size, Type |-> type,
                         ExtendedSize |-> U64At(bytes, p + 8)]]

\* (*os.File).Seek: a negative resulting offset is an error, an offset past
\* the end of the file is not
SeekOk(target) == target >= 0

\* (*os.File).Write of data at offset p (p is never past the end here)
WriteAt(bytes, p, data) ==
    LET n == Len(data)
        newLen == IF p + n > Len(bytes) THEN p + n ELSE Len(bytes)
    IN [i \in 1..newLen |->
           IF i > p /\ i <= p + n THEN data[i - p] ELSE bytes[i]]

\* the loop condition of findHeader and forEachBox
InRange(limit, offset, end) == limit < 0 \/ offset < end


(***************************** input files *********************************)
\* A sample entry: its tag and the form of its header ("std": 8 bytes,
\* "ext": 16 bytes with an extended size, "zero": 8 bytes declaring size 0).
\* Entries have no payload, which keeps the files short.  A pad is a box
\* without payload: "free" and "xfree" in standard and extended form, "zero"
\* declaring size 0, "xneg" in extended form declaring size 2^64 - 8.
EntryBytes(e) ==
    CASE e.form = "std" -> Box(e.t, <<>>)
      [] e.form = "ext" -> XBox(e.t, <<>>)
      [] e.form = "zero" -> RawBox(0, e.t, <<>>)

EntriesBytes(ents) == Concat([i \in 1..Len(ents) |-> EntryBytes(ents[i])])

PadBytes(pad) ==
    CASE pad = "none" -> <<>>
      [] pad = "free" -> Box(Free, <<>>)
      [] pad = "xfree" -> XBox(Free, <<>>)
      [] pad = "zero" -> RawBox(0, Free, <<>>)
      [] pad = "xneg" -> RawXBox(-8, Free, <<>>)
      [] pad = "stts" -> Box(Stts, <<>>)
      [] pad = "dvhe" -> Box(Dvhe, <<>>)

\* A trak: pad is a box before mdia, tail a box after stsd inside stbl.
\*   mdia "short": mdia declares size 4;  mdia "absent": the trak has no mdia
\*   stbl "neg": stbl is in extended form and declares size 2^64 - 8
StsdBytes(t) ==
    LET body == <<0, 0, 0, 0>> \o BE32(Len(t.ents)) \o EntriesBytes(t.ents)
    IN IF t.stsd = "ext" THEN XBox(StsdBoxType, body) ELSE Box(StsdBoxType, body)

MdiaBytes(t) ==
    LET stblBody == StsdBytes(t) \o PadBytes(t.tail)
        stblB == IF t.stbl = "neg" THEN RawXBox(-8, StblBoxType, stblBody)
                 ELSE Box(StblBoxType, stblBody)
        minfB == Box(MinfBoxType, stblB)
    IN CASE t.mdia = "std" -> Box(MdiaBoxType, minfB)
         [] t.mdia = "short" -> RawBox(4, MdiaBoxType, minfB)
         [] t.mdia = "absent" -> <<>>

TrakBytes(t) == Box(TrakBoxType, PadBytes(t.pad) \o MdiaBytes(t))

\* offsets, from the start of the trak, of the type fields of its sample
\* entries, with the tag each holds
TrakEntryFields(t) ==
    IF t.mdia = "absent" THEN {}
    ELSE LET first == 8 + Len(PadBytes(t.pad)) + 8 + 8
                      + (IF t.stbl = "neg" THEN 16 ELSE 8)
                      + (IF t.stsd = "ext" THEN 16 ELSE 8) + 8
         IN { [off |-> first + Len(EntriesBytes(SubSeq(t.ents, 1, i - 1))) + 4,
               t |-> t.ents[i].t] : i \in 1..Len(t.ents) }

\* A file: pre and post are top-level boxes around moov, mpad a box inside
\* moov before the traks.
\*   moov "short": moov declares size 4;  moov "absent": the box that holds
\*   the traks has type free, so the file has no moov
TraksBytes(traks) == Concat([i \in 1..Len(traks) |-> TrakBytes(traks[i])])

MoovBytes(f) ==
    LET body == PadBytes(f.mpad) \o TraksBytes(f.traks)
    IN CASE f.moov = "std" -> Box(MoovBoxType, body)
         [] f.moov = "ext" -> XBox(MoovBoxType, body)
         [] f.moov = "short" -> RawBox(4, MoovBoxType, body)
         [] f.moov = "absent" -> Box(Free, body)

FileBytes(f) == PadBytes(f.pre) \o MoovBytes(f) \o PadBytes(f.post)

\* offsets of the type fields of the sample entries of the file
FileEntryFields(f) ==
    IF f.moov = "absent" THEN {}
    ELSE LET first == Len(PadBytes(f.pre)) + (IF f.moov = "ext" THEN 16 ELSE 8)
                      + Len(PadBytes(f.mpad))
         IN UNION { { [off |-> first + Len(TraksBytes(SubSeq(f.traks, 1, k - 1))) + e.off,
                       t |-> e.t] : e \in TrakEntryFields(f.traks[k]) }
                    : k \in 1..Len(f.traks) }

SeqsUpTo(S, n) == UNION { [1..k -> S] : k \in 1..n }

EntryKinds ==
    { [t |-> Dvhe, form |-> "std"], [t |-> Dvhe, form |-> "ext"],
      [t |-> Hev1, form |-> "std"] }

BaseTrak ==
    [pad |-> "none", mdia |-> "std", stbl |-> "std", stsd |-> "std",
     ents |-> << [t |-> Dvhe, form |-> "std"] >>, tail |-> "stts"]

\* traks with consistent sizes and the whole path
GoodTraks ==
    { [pad |-> "none", mdia |-> "std", stbl |-> "std", stsd |-> s, ents |-> e,
       tail |-> tl] :
        s \in {"std", "ext"}, e \in SeqsUpTo(EntryKinds, MaxEntries),
        tl \in {"none", "stts", "dvhe"} }

\* traks with one oddity each
OddTraks ==
    { [BaseTrak EXCEPT !.pad = p] : p \in {"free", "xfree", "zero", "xneg"} }
    \cup { [BaseTrak EXCEPT !.mdia = m] : m \in {"short", "absent"} }
    \cup { [BaseTrak EXCEPT !.mdia = "absent", !.pad = p] : p \in {"free", "zero"} }
    \cup { [BaseTrak EXCEPT !.stbl = "neg"] }
    \cup { [BaseTrak EXCEPT !.ents = << [t |-> f, form |-> "zero"] >>] : f \in {Dvhe, Hev1} }

SmallTraks ==
    { BaseTrak, [BaseTrak EXCEPT !.tail = "none"], [BaseTrak EXCEPT !.mdia = "absent"] }

Files ==
    { [pre |-> "none", moov |-> "std", mpad |-> "none", traks |-> <<t>>, post |-> "none"] :
        t \in GoodTraks \cup OddTraks }
    \cup { [pre |-> p, moov |-> m, mpad |-> mp, traks |-> <<BaseTrak>>, post |-> po] :
            p \in {"none", "free", "xfree", "zero", "xneg"}, m \in {"std", "ext", "short", "absent"},
            mp \in {"none", "free", "xfree"}, po \in {"none", "free"} }
    \cup { [pre |-> "free", moov |-> "std", mpad |-> "none", traks |-> ts, post |-> "none"] :
            ts \in SeqsUpTo(SmallTraks, MaxTraks) }

\* consistent sizes, a moov, and the whole path in every trak
WellFormedTrak(t) ==
    /\ t.pad \in {"none", "free", "xfree"}
    /\ t.mdia = "std" /\ t.stbl = "std"
    /\ \A i \in 1..Len(t.ents) : t.ents[i].form # "zero"

WellFormed(f) ==
    /\ f.pre \in {"none", "free", "xfree"} /\ f.moov \in {"std", "ext"}
    /\ \A k \in 1..Len(f.traks) : WellFormedTrak(f.traks[k])

\* -from and -to of the command line; a tag is any string: "dvh" has three
\* bytes and "hvc1x" five
TagPairs ==
    { <<Dvhe, Dvh1>>, <<Hev1, Hvc1>>, <<Dvhe, Dvhe>>,
      <<Dvhe, <<100, 118, 104>> >>, <<Hev1, Hvc1 \o <<120>> >> }

\* the files named on the command line; "c" does not exist
ArgLists == { <<"a">>, <<"a", "b">>, <<"c", "a">> }


(******************************* state *************************************)
VARIABLES
    fs,          \* the disk: file name -> bytes
    args,        \* flag.Args(): the files to process
    codecFrom,   \* -from
    codecTo,     \* -to
    pc,          \* the place in the code
    fileIdx,     \* run: index of the file being processed
    pos,         \* the cursor of the open file rw
    err,         \* "nil" or the kind of the error being returned
    h,           \* findHeader: the header just read / the header it returned
    fhTarget,    \* findHeader: boxType
    fhLimit,     \* findHeader: limit
    fhOffset,    \* findHeader: offset
    moovLoop,    \* forEachBox over the children of moov: start, offset, limit, h
    stsdLoop,    \* forEachBox over the sample entries: start, offset, limit, h
    layout,      \* history: the structure the files were built from
    inv,         \* history: which invocation of the program this is
    snap,        \* history: the disk when this invocation started
    hPos,        \* history: offset at which the last header was read
    stsdEnd,     \* history: offset of the end of the stsd box last found
    located,     \* history: types of the boxes located on the way down
    opens,       \* history: calls of os.OpenFile in this invocation
    traksSeen,   \* history: trak boxes handed to trakHandler in this invocation
    wrote,       \* history: binary.Write was called in this invocation
    wpos         \* history: offset of the last write

vars == << fs, args, codecFrom, codecTo, pc, fileIdx, pos, err, h, fhTarget,
           fhLimit, fhOffset, moovLoop, stsdLoop, layout, inv, snap,
           hPos, stsdEnd, located, opens, traksSeen, wrote, wpos >>

config == << args, codecFrom, codecTo, layout, inv, snap >>
findVars == << fhTarget, fhLimit, fhOffset >>
counters == << opens, traksSeen, wrote, wpos >>

\* the disk before the first run
orig == [n \in {"a", "b"} |-> FileBytes(layout)]

NoLoop == [start |-> 0, offset |-> 0, limit |-> 0, h |-> NoHeader]

rw == args[fileIdx]

Init ==
    /\ layout \in Files
    /\ fs = orig
    /\ snap = fs
    /\ args \in ArgLists
    /\ \E tags \in TagPairs : codecFrom = tags[1] /\ codecTo = tags[2]
    /\ pc = "run"
    /\ fileIdx = 1
    /\ pos = 0
    /\ err = "nil"
    /\ h = NoHeader
    /\ fhTarget = MoovBoxType
    /\ fhLimit = -1
    /\ fhOffset = 0
    /\ moovLoop = NoLoop
    /\ stsdLoop = NoLoop
    /\ inv = 1
    /\ hPos = 0
    /\ stsdEnd = 0
    /\ located = <<>>
    /\ opens = 0
    /\ traksSeen = 0
    /\ wrote = FALSE
    /\ wpos = -1

(******************************** run **************************************)
\* run: `if err = processFile(mp4file); err != nil { return ... }`
RunAborts(e) == e # "nil"

\* the callback's error is dropped
CallbackIgnored(e) == FALSE

\* forEachBox: `if err = fn(h); err != nil { return ... }`
CallbackFailed(e) == e # "nil"

\* the first box read is taken for the box looked for
TypeIsAny(header, boxType) == TRUE

\* findHeader: `if h.Type == boxType`
TypeIs(header, boxType) == header.Type = boxType

\* sampleEntryHandler: `if string(h.Type[:]) == codecFrom`
CodecMatches(header, from) == header.Type = from

\* where findHeader's caller goes when findHeader fails
FindFailed == IF fhTarget = MoovBoxType THEN "processFileReturn" ELSE "trakReturn"

\* the next box type on the path, in trakHandler
NextOnPath(type) ==
    CASE type = MdiaBoxType -> MinfBoxType
      [] type = MinfBoxType -> StblBoxType
      [] type = StblBoxType -> StsdBoxType

\* trakHandler: the limit it gives forEachBox for the sample entries
SampleEntriesLimit(header) == BodySize(header)

\* run picks the next file; processFile opens it, seeks to 0 and starts the
\* search for moov
RunNextFile ==
    /\ pc = "run" /\ fileIdx <= Len(args)
    /\ opens' = opens + 1
    /\ IF rw \in DOMAIN fs
       THEN /\ pos' = 0
            /\ err' = "nil"
            /\ fhTarget' = MoovBoxType /\ fhLimit' = -1 /\ fhOffset' = 0
            /\ located' = <<>>
            /\ pc' = "findHeader"
       ELSE /\ err' = "open"
            /\ pc' = "runCheck"
            /\ UNCHANGED << pos, findVars, located >>
    /\ UNCHANGED << fs, config, fileIdx, h, moovLoop, stsdLoop, hPos, stsdEnd,
                    traksSeen, wrote, wpos >>

\* run: every file has been processed
RunDone ==
    /\ pc = "run" /\ fileIdx > Len(args)
    /\ pc' = "exit"
    /\ UNCHANGED << fs, config, fileIdx, pos, err, h, findVars, moovLoop, stsdLoop,
                    hPos, stsdEnd, located, counters >>

\* processFile returns: the deferred Close runs
ProcessFileReturn ==
    /\ pc = "processFileReturn"
    /\ pc' = "runCheck"
    /\ UNCHANGED << fs, config, fileIdx, pos, err, h, findVars, moovLoop, stsdLoop,
                    hPos, stsdEnd, located, counters >>

\* run looks at what processFile returned
RunCheck ==
    /\ pc = "runCheck"
    /\ IF RunAborts(err)
       THEN pc' = "exit" /\ UNCHANGED fileIdx
       ELSE pc' = "run" /\ fileIdx' = fileIdx + 1
    /\ UNCHANGED << fs, config, pos, err, h, findVars, moovLoop, stsdLoop,
                    hPos, stsdEnd, located, counters >>

\* the program is invoked again with the same command line
Restart ==
    /\ pc = "exit" /\ inv < MaxRuns
    /\ inv' = inv + 1
    /\ snap' = fs
    /\ pc' = "run" /\ fileIdx' = 1 /\ pos' = 0 /\ err' = "nil" /\ h' = NoHeader
    /\ fhTarget' = MoovBoxType /\ fhLimit' = -1 /\ fhOffset' = 0
    /\ moovLoop' = NoLoop /\ stsdLoop' = NoLoop
    /\ hPos' = 0 /\ stsdEnd' = 0 /\ located' = <<>>
    /\ opens' = 0 /\ traksSeen' = 0 /\ wrote' = FALSE /\ wpos' = -1
    /\ UNCHANGED << fs, args, codecFrom, codecTo, layout >>

(****************************** findHeader *********************************)
\* the loop condition fails: `cannot find box`
FindHeaderNotFound ==
    /\ pc = "findHeader"
    /\ ~InRange(fhLimit, fhOffset, fhLimit)
    /\ err' = "notfound"
    /\ pc' = FindFailed
    /\ UNCHANGED << fs, config, fileIdx, pos, h, findVars, moovLoop, stsdLoop,
                    hPos, stsdEnd, located, counters >>

\* one header is read and compared with boxType
FindHeaderRead ==
    /\ pc = "findHeader"
    /\ InRange(fhLimit, fhOffset, fhLimit)
    /\ LET r == readBoxHeader(fs[rw], pos)
       IN IF ~r.ok
          THEN /\ err' = "read"
               /\ pc' = FindFailed
               /\ UNCHANGED << pos, h, hPos, located >>
          ELSE /\ h' = r.h
               /\ pos' = r.pos
               /\ hPos' = pos
               /\ IF TypeIs(r.h, fhTarget)
                  THEN pc' = "found" /\ located' = Append(located, r.h.Type)
                  ELSE pc' = "findHeaderSkip" /\ UNCHANGED located
               /\ UNCHANGED err
    /\ UNCHANGED << fs, config, fileIdx, findVars, moovLoop, stsdLoop, stsdEnd, counters >>

\* the body of a box of another type is skipped; offset += size
FindHeaderSkip ==
    /\ pc = "findHeaderSkip"
    /\ IF SeekOk(pos + BodySize(h))
       THEN /\ pos' = pos + BodySize(h)
            /\ fhOffset' = fhOffset + getBoxSize(h)
            /\ pc' = "findHeader"
            /\ UNCHANGED err
       ELSE /\ err' = "seek"
            /\ pc' = FindFailed
            /\ UNCHANGED << pos, fhOffset >>
    /\ UNCHANGED << fs, config, fileIdx, h, fhTarget, fhLimit, moovLoop, stsdLoop,
                    hPos, stsdEnd, located, counters >>

(****************************** processFile ********************************)
\* moov is found: forEachBox over its children starts at the cursor
ProcessFileMoov ==
    /\ pc = "found" /\ fhTarget = MoovBoxType
    /\ moovLoop' = [start |-> pos, offset |-> pos, limit |-> BodySize(h), h |-> NoHeader]
    /\ pc' = "forEachMoov"
    /\ UNCHANGED << fs, config, fileIdx, pos, err, h, findVars, stsdLoop,
                    hPos, stsdEnd, located, counters >>

\* forEachBox over moov's children: the loop condition fails
MoovChildrenDone ==
    /\ pc = "forEachMoov"
    /\ ~InRange(moovLoop.limit, moovLoop.offset, moovLoop.start + moovLoop.limit)
    /\ pc' = "processFileReturn"
    /\ UNCHANGED << fs, config, fileIdx, pos, err, h, findVars, moovLoop, stsdLoop,
                    hPos, stsdEnd, located, counters >>

\* forEachBox over moov's children: seek to offset, read the header, call
\* trakHandler, which returns at once for a box that is no trak and starts
\* the search for mdia otherwise
MoovChild ==
    /\ pc = "forEachMoov"
    /\ InRange(moovLoop.limit, moovLoop.offset, moovLoop.start + moovLoop.limit)
    /\ LET r == readBoxHeader(fs[rw], moovLoop.offset)
       IN IF ~SeekOk(moovLoop.offset)
          THEN /\ err' = "seek" /\ pc' = "processFileReturn"
               /\ UNCHANGED << pos, moovLoop, hPos, findVars, located, traksSeen >>
          ELSE IF ~r.ok
          THEN /\ err' = "read" /\ pc' = "processFileReturn"
               /\ UNCHANGED << pos, moovLoop, hPos, findVars, located, traksSeen >>
          ELSE /\ pos' = r.pos
               /\ hPos' = moovLoop.offset
               /\ UNCHANGED err
               /\ IF r.h.Type # TrakBoxType
                  THEN /\ moovLoop' = [moovLoop EXCEPT !.h = r.h,
                                         !.offset = @ + getBoxSize(r.h)]
                       /\ pc' = "forEachMoov"
                       /\ UNCHANGED << findVars, located, traksSeen >>
                  ELSE /\ moovLoop' = [moovLoop EXCEPT !.h = r.h]
                       /\ traksSeen' = traksSeen + 1
                       /\ located' = << MoovBoxType, TrakBoxType >>
                       /\ fhTarget' = MdiaBoxType
                       /\ fhLimit' = BodySize(r.h)
                       /\ fhOffset' = 0
                       /\ pc' = "findHeader"
    /\ UNCHANGED << fs, config, fileIdx, h, stsdLoop, stsdEnd, opens, wrote, wpos >>

\* trakHandler has returned to forEachBox: offset += size, or the error is
\* returned
TrakHandlerReturn ==
    /\ pc = "trakReturn"
    /\ IF CallbackFailed(err)
       THEN pc' = "processFileReturn" /\ UNCHANGED moovLoop
       ELSE /\ pc' = "forEachMoov"
            /\ moovLoop' = [moovLoop EXCEPT !.offset = @ + getBoxSize(moovLoop.h)]
    /\ UNCHANGED << fs, config, fileIdx, pos, err, h, findVars, stsdLoop,
                    hPos, stsdEnd, located, counters >>

(****************************** trakHandler ********************************)
\* mdia, minf or stbl is found: search for the next box of the path inside it
TrakHandlerDescend ==
    /\ pc = "found" /\ fhTarget \in {MdiaBoxType, MinfBoxType, StblBoxType}
    /\ fhTarget' = NextOnPath(fhTarget)
    /\ fhLimit' = BodySize(h)
    /\ fhOffset' = 0
    /\ pc' = "findHeader"
    /\ UNCHANGED << fs, config, fileIdx, pos, err, h, moovLoop, stsdLoop,
                    hPos, stsdEnd, located, counters >>

\* stsd is found: skip version, flags and entry count; forEachBox over the
\* sample entries starts at the cursor
TrakHandlerStsd ==
    /\ pc = "found" /\ fhTarget = StsdBoxType
    /\ pos' = pos + 8
    /\ stsdLoop' = [start |-> pos + 8, offset |-> pos + 8,
                    limit |-> SampleEntriesLimit(h), h |-> NoHeader]
    /\ stsdEnd' = hPos + getBoxSize(h)
    /\ pc' = "forEachStsd"
    /\ UNCHANGED << fs, config, fileIdx, err, h, findVars, moovLoop,
                    hPos, located, counters >>

\* forEachBox over the sample entries: the loop condition fails
SampleEntriesDone ==
    /\ pc = "forEachStsd"
    /\ ~InRange(stsdLoop.limit, stsdLoop.offset, stsdLoop.start + stsdLoop.limit)
    /\ pc' = "trakReturn"
    /\ UNCHANGED << fs, config, fileIdx, pos, err, h, findVars, moovLoop, stsdLoop,
                    hPos, stsdEnd, located, counters >>

\* forEachBox over the sample entries: seek to offset, read the header, call
\* sampleEntryHandler, which overwrites the type when it equals codecFrom
SampleEntry ==
    /\ pc = "forEachStsd"
    /\ InRange(stsdLoop.limit, stsdLoop.offset, stsdLoop.start + stsdLoop.limit)
    /\ LET r == readBoxHeader(fs[rw], stsdLoop.offset)
           typeAt == r.pos + getHeaderTypeOffset(r.h)
       IN IF ~SeekOk(stsdLoop.offset)
          THEN /\ err' = "seek" /\ pc' = "trakReturn"
               /\ UNCHANGED << fs, pos, stsdLoop, hPos, wrote, wpos >>
          ELSE IF ~r.ok
          THEN /\ err' = "read" /\ pc' = "trakReturn"
               /\ UNCHANGED << fs, pos, stsdLoop, hPos, wrote, wpos >>
          ELSE /\ hPos' = stsdLoop.offset
               /\ stsdLoop' = [stsdLoop EXCEPT !.h = r.h, !.offset = @ + getBoxSize(r.h)]
               /\ pc' = "forEachStsd"
               /\ UNCHANGED err
               /\ IF CodecMatches(r.h, codecFrom)
                  THEN /\ fs' = [fs EXCEPT ![rw] = WriteAt(@, typeAt, codecTo)]
                       /\ pos' = typeAt + Len(codecTo)
                       /\ wrote' = TRUE
                       /\ wpos' = typeAt
                  ELSE /\ pos' = r.pos
                       /\ UNCHANGED << fs, wrote, wpos >>
    /\ UNCHANGED << config, fileIdx, h, findVars, moovLoop, stsdEnd, located,
                    opens, traksSeen >>

Next ==
    \/ RunNextFile
    \/ RunDone
    \/ ProcessFileReturn
    \/ RunCheck
    \/ Restart
    \/ FindHeaderNotFound
    \/ FindHeaderRead
    \/ FindHeaderSkip
    \/ ProcessFileMoov
    \/ MoovChildrenDone
    \/ MoovChild
    \/ TrakHandlerReturn
    \/ TrakHandlerDescend
    \/ TrakHandlerStsd
    \/ SampleEntriesDone
    \/ SampleEntry

Spec == Init /\ [][Next]_vars

\* the program runs until it returns: no step is ever put off forever
FairSpec == Spec /\ WF_vars(Next)


(******************************* claims ************************************)
\* the sample entries of the files, from the structure they were built from
Entries == FileEntryFields(layout)

\* the sample entries of file f that held the source tag when this
\* invocation started
Matched(f) == { e \in Entries : TypeAt(snap[f], e.off) = codecFrom }

\* byte i (from 1) of a file lies in the type field of a matched entry
InMatchedField(f, i) == \E e \in Matched(f) : i - 1 \in e.off .. (e.off + 3)

\* the tag occurs nowhere in the bytes
TagAbsent(bytes, tag) == \A p \in 0 .. (Len(bytes) - 4) : TypeAt(bytes, p) # tag

PathToStsd ==
    << MoovBoxType, TrakBoxType, MdiaBoxType, MinfBoxType, StblBoxType, StsdBoxType >>

\* C1 (exact patch), for tags of four bytes: no byte outside the type field
\* of a sample entry that held the source tag ever differs from what it was,
\* and when processFile has returned without error every such type field
\* holds the destination tag.
ExactPatch ==
    (Len(codecFrom) = 4 /\ Len(codecTo) = 4) =>
    /\ \A f \in DOMAIN fs :
          \A i \in 1 .. Len(snap[f]) :
              (i > Len(fs[f]) \/ fs[f][i] # snap[f][i]) => InMatchedField(f, i)
    /\ (pc = "runCheck" /\ err = "nil") =>
          \A e \in Matched(rw) : TypeAt(fs[rw], e.off) = codecTo

\* C2 (size preservation): no file ever changes its length.
SizePreserved == \A f \in DOMAIN fs : Len(fs[f]) = Len(orig[f])

\* C3 (success on a well-formed file): processFile on a file with consistent
\* sizes, a moov and the whole path in every trak returns no error, and
\* changes no byte when no sample entry holds the source tag.
WellFormedSucceeds ==
    (pc = "runCheck" /\ inv = 1 /\ rw \in DOMAIN fs /\ WellFormed(layout)) =>
        /\ err = "nil"
        /\ (Matched(rw) = {} => fs[rw] = orig[rw])

BoundedSearchTerminates ==
    /\ []( (pc = "findHeader" /\ fhLimit >= 0 /\ TagAbsent(fs[rw], fhTarget))
              => <>(pc \notin {"findHeader", "findHeaderSkip"}) )
    /\ []( (pc = "forEachStsd" /\ stsdLoop.limit >= 0) => <>(pc # "forEachStsd") )

\* C6 (64-bit sizes): a header with size field 1 and extended size S is
\* skipped to its start + S by findHeader and forEachBox, bounds a search
\* inside it by S - 16, and is patched at its start + 4.
ExtendedSizeSupport ==
    [][ /\ (pc = "findHeaderSkip" /\ pc' = "findHeader" /\ h.Size = 1) =>
              /\ pos' = hPos + h.ExtendedSize
              /\ fhOffset' = fhOffset + h.ExtendedSize
        /\ (pc = "forEachMoov" /\ pc' = "forEachMoov" /\ moovLoop'.h.Size = 1) =>
              moovLoop'.offset = moovLoop.offset + moovLoop'.h.ExtendedSize
        /\ (pc = "forEachStsd" /\ pc' = "forEachStsd" /\ stsdLoop'.h.Size = 1) =>
              /\ stsdLoop'.offset = stsdLoop.offset + stsdLoop'.h.ExtendedSize
              /\ stsdLoop'.h.Type = codecFrom =>
                    /\ wpos' = stsdLoop.offset + 4
                    /\ \A i \in 1 .. Len(codecTo) :
                          fs'[rw][stsdLoop.offset + 4 + i] = codecTo[i]
        /\ (pc = "found" /\ h.Size = 1) =>
              /\ pc' = "findHeader" => fhLimit' = h.ExtendedSize - 16
              /\ pc' = "forEachMoov" => moovLoop'.limit = h.ExtendedSize - 16
              /\ pc' = "forEachStsd" => stsdLoop'.limit = h.ExtendedSize - 16
      ]_vars

ExtendedEntryPatched ==
    /\ pc = "forEachStsd" /\ wrote /\ wpos = hPos + 4
    /\ stsdLoop.h.Size = 1 /\ stsdLoop.h.Type = codecFrom
    /\ h.Size = 1 /\ stsdLoop.limit = h.ExtendedSize - 16
    /\ TypeAt(fs[rw], hPos + 4) = codecTo

\* C7 (idempotence): a second run with the same tags leaves the files as the
\* first run left them, and when the tags differ it writes nothing.
Idempotent ==
    inv >= 2 =>
        /\ pc = "exit" => fs = snap
        /\ codecTo # codecFrom => ~wrote

\* C8 (enumeration stays inside stsd): every header the walk over the sample
\* entries reads begins before the end of the stsd box.
EnumerationInsideStsd ==
    (pc = "forEachStsd" /\ stsdLoop.h # NoHeader) => hPos < stsdEnd

\* C9 (only the top-level search is unbounded): every search but the one for
\* moov has a non-negative limit.
NestedLimitsNonNegative ==
    /\ (pc \in {"findHeader", "findHeaderSkip", "found"} /\ fhTarget # MoovBoxType)
          => fhLimit >= 0
    /\ pc \in {"forEachMoov", "trakReturn"} => moovLoop.limit >= 0
    /\ pc = "forEachStsd" => stsdLoop.limit >= 0

\* C10 (first error aborts, without rollback): once an error is being
\* returned it is the error the run ends with; no byte is written or undone,
\* no further trak is handled and no further file is opened.
FirstErrorAborts ==
    [][ (err # "nil" /\ inv' = inv) =>
            /\ err' = err
            /\ fs' = fs
            /\ traksSeen' = traksSeen
            /\ opens' = opens
            /\ pc' \in {"trakReturn", "processFileReturn", "runCheck", "exit"}
      ]_vars

AbortedAfterPatch ==
    /\ pc = "exit" /\ inv = 1 /\ err = "notfound"
    /\ fs["a"] # orig["a"]
    /\ traksSeen < Len(layout.traks)
    /\ opens < Len(args)

============================================================================
